---- MODULE Spec2Model ----
(***************************************************************************)
(* Model of rpl/src/types/geometric/spaces.rs: the StateSpace trait, the   *)
(* CompoundState value and the CompoundStateSpace implementation.          *)
(*                                                                         *)
(* f64 coordinates and distances are modelled by integers.  A child of a   *)
(* compound space is a trait object (Box<StateSpace>): either a leaf space *)
(* (no implementation in the repository; modelled as a 1-D real line) or   *)
(* another CompoundStateSpace.                                             *)
(***************************************************************************)
EXTENDS Integers, Sequences, FiniteSets, TLC

\* ---------------------------------------------------------------- bounds
MaxCoord == 1        \* leaf coordinates range over 0..MaxCoord
MaxDim   == 2        \* a space has at most MaxDim children / leaf slots
MaxStep  == 2        \* set_segment_length arguments range over -1..MaxStep
TDen     == 2        \* interpolation parameter t = k / TDen, k in 0..TDen

Coords    == 0..MaxCoord
LeafNames == {"x", "y"}
Names     == {"arm", "base"}

Min(x, y) == IF x <= y THEN x ELSE y
Abs(x)    == IF x < 0 THEN -x ELSE x

SeqsUpTo(S, n) == UNION {[1..k -> S] : k \in 0..n}

\* ------------------------------------------------------------ data model
\* struct CompoundStateSpace { name, components, segment_length }
CompoundStateSpace(name, components, segment_length) ==
    [kind |-> "compound", name |-> name, components |-> components,
     segment_length |-> segment_length]

\* A leaf space: an external implementer of the StateSpace trait.
LeafSpace(name) ==
    [kind |-> "leaf", name |-> name, components |-> <<>>, segment_length |-> 1]

\* struct CompoundState { values, space }; the reference to the owning space
\* is the path of child indices leading to it from the top-level space.
CompoundState(values, space) == [values |-> values, space |-> space]

\* State::new for CompoundState: an empty value list and the given space.
new(space) == CompoundState(<<>>, space)

\* Return values: unit, an f64, a bool, a string, a state.
Unit       == [tag |-> "unit"]
F64(v)     == [tag |-> "f64", val |-> v]
Bool(v)    == [tag |-> "bool", val |-> v]
Str(v)     == [tag |-> "str", val |-> v]
StateV(v)  == [tag |-> "state", val |-> v]
Err(e)     == [tag |-> "err", val |-> e]

\* ------------------------------------------------------- space universe
RECURSIVE Dim(_)
\* Number of leaf slots of a space.
Dim(sp) ==
    IF sp.kind = "leaf" THEN 1
    ELSE LET n == Len(sp.components)
             sum[k \in 0..n] ==
                 IF k = 0 THEN 0 ELSE sum[k - 1] + Dim(sp.components[k])
         IN  sum[n]

Leaves      == {LeafSpace(n) : n \in LeafNames}
InnerSpaces == {CompoundStateSpace("inner", c, 1) :
                   c \in SeqsUpTo({LeafSpace("x")}, MaxDim)}
ChildSpaces == {LeafSpace("x")} \cup InnerSpaces

\* Child lists a caller may hand to the struct literal (the empty one too).
ComponentLists ==
    {c \in SeqsUpTo(ChildSpaces, MaxDim) :
        Dim(CompoundStateSpace("arm", c, 1)) <= MaxDim}

\* ------------------------------------------------------- state universe
RECURSIVE AlignedStates(_, _)
\* The states of space sp (at path) that keep the CompoundState invariant:
\* one value per component, values[i] a state of components[i].
AlignedStates(sp, path) ==
    LET n == Len(sp.components)
        vals[k \in 0..n] ==
            IF k = 0 THEN {<<>>}
            ELSE {Append(v, s) :
                    v \in vals[k - 1],
                    s \in IF sp.components[k].kind = "leaf" THEN Coords
                          ELSE AlignedStates(sp.components[k], Append(path, k))}
    IN  {CompoundState(v, path) : v \in vals[n]}

\* The value of slot k of a state handed to the top-level space sp: a state
\* of child k when there is one, a leaf coordinate beyond the child list.
SlotStates(sp, k) ==
    IF k <= Len(sp.components) /\ sp.components[k].kind = "compound"
    THEN AlignedStates(sp.components[k], <<k>>)
    ELSE Coords

\* CompoundStates a caller may hand to the top-level space: 0..MaxDim values,
\* so index-aligned with sp or not.
States(sp) ==
    LET vals[k \in 0..MaxDim] ==
            IF k = 0 THEN {<<>>}
            ELSE {Append(v, s) : v \in vals[k - 1], s \in SlotStates(sp, k)}
    IN  {CompoundState(v, <<>>) : v \in UNION {vals[k] : k \in 0..MaxDim}}

RECURSIVE Valid(_, _)
\* The CompoundState invariant: one value per component, values[i] a state
\* of components[i].
Valid(sp, s) ==
    /\ Len(s.values) = Len(sp.components)
    /\ \A i \in 1..Len(sp.components) :
          sp.components[i].kind = "compound" => Valid(sp.components[i], s.values[i])

\* ----------------------------------------------------------- leaf spaces
\* 1-D real line: |a - b|.
LeafDistance(a, b) == Abs(a - b)

\* ------------------------------------------------- CompoundStateSpace ops
RECURSIVE distance(_, _, _)

\* distance with a sign slip: the fold subtracts each child's distance.
distance_minus(self, a, b) ==
    LET n == Min(Len(self.components), Min(Len(a.values), Len(b.values)))
        fold[k \in 0..n] ==
            IF k = 0 THEN 0
            ELSE LET sub == self.components[k]
                 IN  fold[k - 1] -
                     (IF sub.kind = "leaf"
                      THEN LeafDistance(a.values[k], b.values[k])
                      ELSE distance(sub, a.values[k], b.values[k]))
    IN  fold[n]

\* distance with an off-by-one: the fold stops one child short.
distance_short(self, a, b) ==
    LET n == Min(Len(self.components), Min(Len(a.values), Len(b.values)))
        fold[k \in 0..n] ==
            IF k = 0 THEN 0
            ELSE LET sub == self.components[k]
                 IN  fold[k - 1] +
                     (IF sub.kind = "leaf"
                      THEN LeafDistance(a.values[k], b.values[k])
                      ELSE distance(sub, a.values[k], b.values[k]))
    IN  IF n = 0 THEN 0 ELSE fold[n - 1]

\* multizip((&self.components, &a.values, &b.values)) stops at the shortest
\* of the three; fold(0.0, acc + subspace.distance(a_sub, b_sub)).
distance(self, a, b) ==
    LET n == Min(Len(self.components), Min(Len(a.values), Len(b.values)))
        fold[k \in 0..n] ==
            IF k = 0 THEN 0
            ELSE LET sub == self.components[k]
                 IN  fold[k - 1] +
                     (IF sub.kind = "leaf"
                      THEN LeafDistance(a.values[k], b.values[k])
                      ELSE distance(sub, a.values[k], b.values[k]))
    IN  fold[n]

\* interpolate_into(&self, from, to, step, result): the body is empty, so
\* the caller's result comes back as it went in.
interpolate_into(self, a, b, step, res) == res

\* interpolate: let mut result = Self::StateT::new();
\* self.interpolate_into(from, to, step, &mut result); result
\* (new is called without a space; the fresh state refers to the top level).
interpolate(self, a, b, step) == interpolate_into(self, a, b, step, new(<<>>))

\* count_segments_between(&self, a, b) -> isize {}: the body is empty and
\* evaluates to the unit value.
count_segments_between(self, a, b) == Unit

\* A leaf space contains exactly the spaces structurally equal to itself.
LeafContains(leaf, target) == leaf = target

RECURSIVE contains(_, _)
\* self.components.iter().any(|&subspace| subspace.contains(space))
contains(self, target) ==
    \E i \in 1..Len(self.components) :
        LET subspace == self.components[i]
        IN  IF subspace.kind = "leaf" THEN LeafContains(subspace, target)
            ELSE contains(subspace, target)

\* covers: self.components.iter().any(|&subspace| subspace.contains(space))
covers(self, target) ==
    \E i \in 1..Len(self.components) :
        LET subspace == self.components[i]
        IN  IF subspace.kind = "leaf" THEN LeafContains(subspace, target)
            ELSE contains(subspace, target)

\* set_segment_length: self.segment_length = step
set_segment_length(self, step) == [self EXCEPT !.segment_length = step]

\* get_segment_length: self.segment_length
get_segment_length(self) == self.segment_length

\* set_name: self.name = name
set_name(self, name) == [self EXCEPT !.name = name]

\* get_name: &self.name
get_name(self) == self.name

\* ------------------------------------------------------------------ state
VARIABLES
    space,    \* the CompoundStateSpace under operation
    from,     \* a state held by the caller
    to,       \* a second state held by the caller
    result,   \* the caller's result state (out-parameter of interpolate_into)
    op,       \* the last operation called
    arg,      \* its scalar argument (step, name or target space), if any
    ret       \* its return value

vars == <<space, from, to, result, op, arg, ret>>

\* The space as built by the struct literal (any child list, segment length
\* 1), two caller states and a result state fresh from State::new.
Init ==
    /\ space \in {CompoundStateSpace("arm", c, 1) : c \in ComponentLists}
    /\ from \in States(space)
    /\ to \in States(space)
    /\ result = new(<<>>)
    /\ op = "init"
    /\ arg = 0
    /\ ret = Unit

\* distance(&self, a, b) -> f64
Call_distance ==
    /\ op' = "distance"
    /\ arg' = 0
    /\ ret' = F64(distance(space, from, to))
    /\ UNCHANGED <<space, from, to, result>>

\* State::new(space) -> the caller's result state
Call_new ==
    /\ op' = "new"
    /\ arg' = 0
    /\ result' = new(<<>>)
    /\ ret' = StateV(result')
    /\ UNCHANGED <<space, from, to>>

\* States are Copy: the caller overwrites its result state with a copy of
\* one of its states.
Copy_state ==
    \E s \in {from, to} :
        /\ op' = "copy"
        /\ arg' = 0
        /\ result' = s
        /\ ret' = Unit
        /\ UNCHANGED <<space, from, to>>

\* interpolate(&self, from, to, step) -> StateT, step = k / TDen
Call_interpolate ==
    \E k \in 0..TDen :
        /\ op' = "interpolate"
        /\ arg' = k
        /\ ret' = StateV(interpolate(space, from, to, k))
        /\ UNCHANGED <<space, from, to, result>>

\* interpolate_into(&self, from, to, step, result)
Call_interpolate_into ==
    \E k \in 0..TDen :
        /\ op' = "interpolate_into"
        /\ arg' = k
        /\ result' = interpolate_into(space, from, to, k, result)
        /\ ret' = Unit
        /\ UNCHANGED <<space, from, to>>

\* count_segments_between(&self, a, b)
Call_count_segments_between ==
    /\ op' = "count_segments_between"
    /\ arg' = 0
    /\ ret' = count_segments_between(space, from, to)
    /\ UNCHANGED <<space, from, to, result>>

\* The spaces a caller may ask about: the space itself, every child space
\* of the universe, and the leaves (one of which is in no compound space).
Targets(self) == {self} \cup ChildSpaces \cup Leaves

\* contains(&self, space) -> bool
Call_contains ==
    \E target \in Targets(space) :
        /\ op' = "contains"
        /\ arg' = target
        /\ ret' = Bool(contains(space, target))
        /\ UNCHANGED <<space, from, to, result>>

\* covers(&self, space) -> bool
Call_covers ==
    \E target \in Targets(space) :
        /\ op' = "covers"
        /\ arg' = target
        /\ ret' = Bool(covers(space, target))
        /\ UNCHANGED <<space, from, to, result>>

\* set_segment_length(&mut self, step)
Call_set_segment_length ==
    \E step \in (-1)..MaxStep :
        /\ op' = "set_segment_length"
        /\ arg' = step
        /\ space' = set_segment_length(space, step)
        /\ ret' = Unit
        /\ UNCHANGED <<from, to, result>>

\* get_segment_length(&self) -> f64
Call_get_segment_length ==
    /\ op' = "get_segment_length"
    /\ arg' = 0
    /\ ret' = F64(get_segment_length(space))
    /\ UNCHANGED <<space, from, to, result>>

\* set_name(&mut self, name)
Call_set_name ==
    \E name \in Names :
        /\ op' = "set_name"
        /\ arg' = name
        /\ space' = set_name(space, name)
        /\ ret' = Unit
        /\ UNCHANGED <<from, to, result>>

\* get_name(&self) -> &str
Call_get_name ==
    /\ op' = "get_name"
    /\ arg' = 0
    /\ ret' = Str(get_name(space))
    /\ UNCHANGED <<space, from, to, result>>

Next ==
    \/ Call_distance
    \/ Call_new
    \/ Copy_state
    \/ Call_interpolate
    \/ Call_interpolate_into
    \/ Call_count_segments_between
    \/ Call_contains
    \/ Call_covers
    \/ Call_set_segment_length
    \/ Call_get_segment_length
    \/ Call_set_name
    \/ Call_get_name

Spec == Init /\ [][Next]_vars

\* The distance function alone, applied to the caller's two states.
NextDistance == Call_distance

SpecDistance == Init /\ [][NextDistance]_vars

\* ----------------------------------------------------------------- claims
RECURSIVE SumOfChildren(_, _, _, _)
\* Sum over child indices 1..k of the child's own distance.
SumOfChildren(sp, a, b, k) ==
    IF k = 0 THEN 0
    ELSE SumOfChildren(sp, a, b, k - 1) +
         (IF sp.components[k].kind = "leaf"
          THEN Abs(a.values[k] - b.values[k])
          ELSE SumOfChildren(sp.components[k], a.values[k], b.values[k],
                             Len(sp.components[k].components)))

\* C1: for index-aligned states a and b, distance(a, b) is the sum over all
\* child indices i of components[i].distance(a.values[i], b.values[i]).
C1_DistanceIsSum ==
    (op = "distance" /\ Valid(space, from) /\ Valid(space, to)) =>
        /\ ret.tag = "f64"
        /\ ret.val = SumOfChildren(space, from, to, Len(space.components))

\* C1 witness: two 1-D children, a = (0,0), b = (1,1), distance 2.
C1_Witness ==
    /\ op = "distance"
    /\ Len(space.components) = 2
    /\ \A i \in 1..2 : space.components[i].kind = "leaf"
    /\ from.values = <<0, 0>>
    /\ to.values = <<1, 1>>
    /\ ret = F64(2)

\* C10: distance satisfies the triangle inequality over valid states:
\* distance(a, b) <= distance(a, c) + distance(c, b) for every valid c.
C10_Triangle ==
    (op = "distance" /\ Valid(space, from) /\ Valid(space, to)) =>
        \A c \in AlignedStates(space, <<>>) :
            ret.val <= distance(space, from, c) + distance(space, c, to)

\* C10 witness: a triangle a, c, b through a middle point c distinct from
\* both ends, on a space with a nested child.
C10_Witness ==
    /\ op = "distance"
    /\ Valid(space, from) /\ Valid(space, to)
    /\ \E i \in 1..Len(space.components) : space.components[i].kind = "compound"
    /\ ret.val > 0
    /\ \E c \in AlignedStates(space, <<>>) :
          /\ c # from /\ c # to
          /\ ret.val < distance(space, from, c) + distance(space, c, to)

\* C2: for valid states, interpolate(a, b, 0) equals a and interpolate(a, b, 1)
\* equals b, and interpolate_into leaves the same values in the result.
C2_InterpolateEndpoints ==
    (Valid(space, from) /\ Valid(space, to)) =>
        /\ op = "interpolate" =>
              /\ ret.tag = "state"
              /\ arg = 0 => ret.val.values = from.values
              /\ arg = TDen => ret.val.values = to.values
        /\ op = "interpolate_into" =>
              /\ arg = 0 => result.values = from.values
              /\ arg = TDen => result.values = to.values

\* ceil(|a - b| / segment_length) of a leaf space.
LeafCountSegments(leaf, a, b) ==
    (Abs(a - b) + leaf.segment_length - 1) \div leaf.segment_length

RECURSIVE MaxOfChildren(_, _, _, _)
\* Maximum over child indices 1..k of the child's own segment count.
MaxOfChildren(sp, a, b, k) ==
    IF k = 0 THEN 0
    ELSE LET rest == MaxOfChildren(sp, a, b, k - 1)
             sub  == sp.components[k]
             mine == IF sub.kind = "leaf"
                     THEN LeafCountSegments(sub, a.values[k], b.values[k])
                     ELSE MaxOfChildren(sub, a.values[k], b.values[k],
                                        Len(sub.components))
         IN  IF mine > rest THEN mine ELSE rest

\* C3: for valid states of a space with children, count_segments_between(a, b)
\* returns the maximum over the children of the child's count_segments_between.
C3_CountIsMax ==
    (op = "count_segments_between" /\ Len(space.components) > 0
       /\ Valid(space, from) /\ Valid(space, to)) =>
        /\ ret.tag = "isize"
        /\ ret.val = MaxOfChildren(space, from, to, Len(space.components))

\* C4: a per-child operation of a space with children, called with a state
\* whose number of values differs from the number of components, fails with
\* DimensionMismatch.
C4_DimensionMismatch ==
    LET n == Len(space.components)
        mismatch == \/ Len(from.values) # n
                    \/ Len(to.values) # n
                    \/ (op = "interpolate_into" /\ Len(result.values) # n)
    IN  (op \in {"distance", "interpolate_into", "count_segments_between"}
           /\ n > 0 /\ mismatch) => ret = Err("DimensionMismatch")

\* C5: set_segment_length(step) with step <= 0 fails with
\* InvalidConfiguration and the stored segment length stays positive.
C5_SegmentLengthPositive ==
    /\ (op = "set_segment_length" /\ arg <= 0) => ret = Err("InvalidConfiguration")
    /\ get_segment_length(space) > 0

\* C6: no CompoundStateSpace with zero components is ever reachable.
C6_NonEmptyComponents == Len(space.components) > 0

RECURSIVE StructurallyContains(_, _)
\* target is structurally equal to sp or to a component of sp at any depth.
StructurallyContains(sp, target) ==
    \/ sp = target
    \/ \E i \in 1..Len(sp.components) : StructurallyContains(sp.components[i], target)

\* C7: on a space with children, contains(other) is true when other is
\* structurally equal to the space itself or to one of its components at any
\* depth; contains(self) is true.
C7_ContainsSelfOrComponent ==
    (op = "contains" /\ Len(space.components) > 0) =>
        /\ ret.tag = "bool"
        /\ StructurallyContains(space, arg) => ret.val

\* C8: a CompoundState from State::new or from interpolate has exactly one
\* value per component of its space.
C8_OneValuePerComponent ==
    (op \in {"new", "interpolate"}) =>
        /\ ret.tag = "state"
        /\ Len(ret.val.values) = Len(space.components)

\* A leaf space covers only itself.
LeafCovers(leaf, target) == leaf = target

\* Child i of sp covers target, by the child's own covers query.
ChildCovers(sp, i, target) ==
    IF sp.components[i].kind = "leaf" THEN LeafCovers(sp.components[i], target)
    ELSE covers(sp.components[i], target)

\* C9: on a space with children, covers(target) is true if any child
\* covers(target), and it is decided by the children's covers query and not
\* their contains query: for some target the space's covers and contains
\* answers differ.
C9_CoversByChildrenCovers ==
    (op = "covers" /\ Len(space.components) > 0) =>
        /\ ret.tag = "bool"
        /\ ret.val = (\E i \in 1..Len(space.components) : ChildCovers(space, i, arg))
        /\ \E t \in Targets(space) : covers(space, t) # contains(space, t)
====
